---- MODULE Spec2Model ----
(***************************************************************************)
(* Model of the Cerebras client (src/cerebras_unofficial.py).              *)
(*                                                                         *)
(* Python strings are sequences of string tokens, so that startswith and   *)
(* f-string formatting are computed rather than assumed.  The value None   *)
(* and a missing attribute are the two sentinel sequences NoneVal, Unset.  *)
(* The network is the environment: every requests.post is answered by a    *)
(* nondeterministic outcome, and the client's code between two network     *)
(* calls is one step.                                                      *)
(***************************************************************************)
EXTENDS Integers, Sequences, FiniteSets, TLC

VARIABLES
    pc,                 \* position of the single thread of control
    site,               \* call site of the running refresh_api_key
    caller,             \* top-level operation in progress: "main" or "generate"
    cookies_or_api_key, \* self.cookies_or_api_key
    config,             \* self.{max_tokens,timeout,model,temperature,top_p,system_prompt}
    api_key,            \* self.api_key (Unset while the attribute does not exist)
    file,               \* content of Config/Cerebras-Config.json
    dirExists,          \* whether the directory Config exists
    prompt,             \* argument of the running generate call
    request,            \* the last completion request sent
    lastResp,           \* the answer to the last completion request (NoResp until it arrives)
    lastAcq,            \* the last answer to a credential-acquisition request
    result,             \* outcome of the last generate call
    ctorAcq,            \* acquisition requests sent by the constructor call
    ctorFails,          \* ... of which failed (transport, status >= 400, bad body)
    genAcq,             \* acquisition requests sent during the current generate call
    genCompl,           \* completion requests sent during the current generate call
    fileAtCtor,         \* content of the cache file when the constructor was entered
    argsAtCtor,         \* the authentication input and configuration given to the constructor
    depth,              \* nested activations of refresh_api_key on the call stack
    seen401             \* a completion request of this client was answered 401

vars == <<pc, site, caller, cookies_or_api_key, config, api_key, file, dirExists,
          prompt, request, lastResp, lastAcq, result, ctorAcq, ctorFails,
          genAcq, genCompl, fileAtCtor, argsAtCtor, depth, seen401>>

----------------------------------------------------------------------------
(* Bounds *)

MaxAcq == 3      \* acquisition requests per constructor call / per generate call
MaxCompl == 3    \* completion requests per generate call

----------------------------------------------------------------------------
(* Python values *)

NoneVal == <<"<None>">>
Unset == <<"<unset>">>
EmptyStr == <<>>
NumVal == <<"<123>">>        \* the JSON number 123 (a truthy value that is not a string)

\* bool(v) for v a string, a non-zero number or None
Truthy(v) == v # NoneVal /\ v # EmptyStr

\* isinstance(v, str)
IsStr(v) == v \notin {NoneVal, Unset, NumVal}

\* str.startswith
StartsWith(s, p) == Len(s) >= Len(p) /\ SubSeq(s, 1, Len(p)) = p

\* str(v) as used by an f-string
Str(v) == IF v = NoneVal THEN <<"None">> ELSE IF v = NumVal THEN <<"123">> ELSE v

Digit(d) ==
    CASE d = 0 -> "0" [] d = 1 -> "1" [] d = 2 -> "2" [] d = 3 -> "3"
      [] d = 4 -> "4" [] d = 5 -> "5" [] d = 6 -> "6" [] d = 7 -> "7"
      [] d = 8 -> "8" [] d = 9 -> "9"

RECURSIVE IntToStr(_)
IntToStr(n) == IF n < 10 THEN <<Digit(n)>> ELSE IntToStr(n \div 10) \o <<Digit(n % 10)>>

\* sub in s
Contains(s, sub) ==
    \E i \in 1..(Len(s) - Len(sub) + 1) : SubSeq(s, i, i + Len(sub) - 1) = sub

COOKIE_PREFIX == <<"cookieyes-consent">>
KEY_PREFIX == <<"csk-">>

CookieInput == <<"cookieyes-consent", "=consentid:U1">>
KeyInput == <<"csk-", "cyt">>
OtherInput == <<"sk-", "csk-">>
Inputs == {CookieInput, KeyInput, OtherInput, EmptyStr, NoneVal}

K1 == <<"demo-", "1">>
K2 == <<"demo-", "2">>
Keys == {K1, K2}

Configs ==
    { [max_tokens |-> 2048, timeout |-> 30, model |-> "llama-3.3-70b",
       temperature |-> 75, top_p |-> 90, system_prompt |-> <<"You are a helpful assistant.">>],
      [max_tokens |-> 30, timeout |-> 2048, model |-> "qwen-3-32b",
       temperature |-> 90, top_p |-> 75, system_prompt |-> <<"Be brief.">>] }

Prompts == {<<"what is Thermodynamics?">>}

----------------------------------------------------------------------------
(* The cache file and JSON documents *)

\* A file content / response body is [shape, key, extra]:
\*   absent     no file
\*   garbage    text that is not JSON
\*   truncated  the empty file left by open(path, 'w')
\*   empty      the JSON document {}
\*   badtype    JSON on which .get("data", {}).get(...) raises AttributeError
\*   keyed      {"data": {"GetMyDemoApiKey": key}, ...extra}, key a string,
\*              null (NoneVal) or a number (NumVal)
Doc(shape, key, extra) == [shape |-> shape, key |-> key, extra |-> extra]

Absent == Doc("absent", NoneVal, <<>>)
Garbage == Doc("garbage", NoneVal, <<>>)
Truncated == Doc("truncated", NoneVal, <<>>)
EmptyObj == Doc("empty", NoneVal, <<>>)
BadType == Doc("badtype", NoneVal, <<>>)
Keyed(k, x) == Doc("keyed", k, x)

JsonDocs ==
    {EmptyObj, BadType, Keyed(K1, <<>>), Keyed(K2, <<"extensions">>),
     Keyed(NoneVal, <<"errors">>), Keyed(EmptyStr, <<>>), Keyed(NumVal, <<>>)}
InitialFiles == {Absent, Garbage, Truncated} \cup JsonDocs

\* os.path.exists
Exists(f) == f.shape # "absent"

\* open(path, 'w') succeeds iff the directory exists
OpenW(dir) == dir

\* json.load(f)
JsonLoad(f) ==
    IF f.shape \in {"garbage", "truncated"}
    THEN [exc |-> <<"JSONDecodeError">>, doc |-> f]
    ELSE [exc |-> <<>>, doc |-> f]

\* Extract reading the key at the top level of the document instead of under "data"
Extract_TopLevel(doc) ==
    CASE doc.shape \in {"empty", "keyed"} -> [exc |-> <<>>, val |-> NoneVal]
      [] OTHER -> [exc |-> <<"AttributeError">>, val |-> NoneVal]

\* data.get("data", {}).get("GetMyDemoApiKey")
Extract(doc) ==
    CASE doc.shape = "empty" -> [exc |-> <<>>, val |-> NoneVal]
      [] doc.shape = "keyed" -> [exc |-> <<>>, val |-> doc.key]
      [] OTHER -> [exc |-> <<"AttributeError">>, val |-> NoneVal]

----------------------------------------------------------------------------
(* Cerebras.__init__ up to its first network call *)

\* Outcome of a code segment: what happens next, and the values it leaves.
\*   next = "done"     the segment returned
\*   next = "refresh"  the segment called refresh_api_key at call site `site`
\*   next = "raise"    the segment raised exc
Out(next, s, f, k, e) == [next |-> next, site |-> s, file |-> f, api_key |-> k, exc |-> e]

\* InitCaught without json.JSONDecodeError
InitCaught_NoJson == {<<"FileNotFoundError">>, <<"KeyError">>, <<"AttributeError">>}

\* InitCaught without AttributeError
InitCaught_NoAttr == {<<"FileNotFoundError">>, <<"JSONDecodeError">>, <<"KeyError">>}

\* the exceptions named by the except clause of __init__
InitCaught == {<<"FileNotFoundError">>, <<"JSONDecodeError">>, <<"KeyError">>, <<"AttributeError">>}

\* InitMissing creating the file without fetching a credential
InitMissing_NoFetch(f, dir, key) ==
    IF OpenW(dir)
    THEN Out("done", "none", EmptyObj, key, <<>>)
    ELSE Out("raise", "none", f, key, <<"FileNotFoundError">>)

\* if not os.path.exists(...): create the file, then refresh
InitMissing(f, dir, key) ==
    IF OpenW(dir)
    THEN Out("refresh", "init76", EmptyObj, key, <<>>)
    ELSE Out("raise", "none", f, key, <<"FileNotFoundError">>)

\* InitExisting keeping a key the object already has instead of reloading the file
InitExisting_KeepKey(f, key) ==
    LET r == JsonLoad(f)
        e == Extract(r.doc)
    IN  IF key # Unset /\ Truthy(key) THEN Out("done", "none", f, key, <<>>)
        ELSE IF r.exc # <<>> THEN Out("raise", "none", f, key, r.exc)
        ELSE IF e.exc # <<>> THEN Out("raise", "none", f, key, e.exc)
        ELSE IF ~Truthy(e.val) THEN Out("refresh", "init86", f, e.val, <<>>)
        ELSE Out("done", "none", f, e.val, <<>>)

\* else: load the key from the existing file; refresh if it is falsy
InitExisting(f, key) ==
    LET r == JsonLoad(f)
        e == Extract(r.doc)
    IN  IF r.exc # <<>> THEN Out("raise", "none", f, key, r.exc)
        ELSE IF e.exc # <<>> THEN Out("raise", "none", f, key, e.exc)
        ELSE IF ~Truthy(e.val) THEN Out("refresh", "init86", f, e.val, <<>>)
        ELSE Out("done", "none", f, e.val, <<>>)

\* the try/except of the cookie branch
InitCookies(f, dir, key) ==
    LET t == IF ~Exists(f) THEN InitMissing(f, dir, key) ELSE InitExisting(f, key)
    IN  IF t.next = "raise" /\ t.exc \in InitCaught
        THEN Out("refresh", "init90", t.file, t.api_key, <<>>)
        ELSE t

\* InitLogic taking any non-cookie input as a credential, without validation
InitLogic_NoValidate(inp, f, dir, key) ==
    IF Truthy(inp) /\ StartsWith(inp, COOKIE_PREFIX) THEN InitCookies(f, dir, key)
    ELSE Out("done", "none", f, inp, <<>>)

\* the main initialization logic
InitLogic(inp, f, dir, key) ==
    IF Truthy(inp) /\ StartsWith(inp, COOKIE_PREFIX) THEN InitCookies(f, dir, key)
    ELSE IF Truthy(inp) /\ StartsWith(inp, KEY_PREFIX) THEN Out("done", "none", f, inp, <<>>)
    ELSE Out("raise", "none", f, key, <<"ValueError">>)

\* ReinitArgs passing timeout and max_tokens in the wrong order
ReinitArgs_Swapped(inp, c) ==
    <<inp, c.timeout, c.max_tokens, c.model, c.temperature, c.top_p, c.system_prompt>>

\* the positional arguments of the call self.__init__(...) made by generate
ReinitArgs(inp, c) ==
    <<inp, c.max_tokens, c.timeout, c.model, c.temperature, c.top_p, c.system_prompt>>

\* binding of positional arguments 2..7 to the attributes
InitAssign(args) ==
    [max_tokens |-> args[2], timeout |-> args[3], model |-> args[4],
     temperature |-> args[5], top_p |-> args[6], system_prompt |-> args[7]]

----------------------------------------------------------------------------
(* Cerebras.refresh_api_key *)

AcqStatuses == {0, 204, 401, 500}      \* 0: requests.post raised (no response)

\* answers of the credential-acquisition endpoint
AcqOutcomes ==
    {[status |-> s, body |-> Absent] : s \in AcqStatuses}
        \cup {[status |-> 200, body |-> b] : b \in JsonDocs \cup {Garbage}}

NoAcq == [status |-> 0, body |-> Absent]

\* response.json()
RespJson(body) ==
    IF body.shape = "garbage"
    THEN [exc |-> <<"JSONDecodeError">>, doc |-> body]
    ELSE [exc |-> <<>>, doc |-> body]

\* with open(path, 'w') as f: json.dump(response.json(), f): the file is
\* truncated by open before response.json() is evaluated
WriteResponse(body, f, dir) ==
    IF ~OpenW(dir) THEN [exc |-> <<"FileNotFoundError">>, file |-> f]
    ELSE IF RespJson(body).exc # <<>> THEN [exc |-> RespJson(body).exc, file |-> Truncated]
    ELSE [exc |-> <<>>, file |-> RespJson(body).doc]

\* the attempt reached a 200 answer whose body is JSON
AcqSucceeded(out) == out.status = 200 /\ RespJson(out.body).exc = <<>>

\* one activation of refresh_api_key, from its request to its return, its
\* recursive call ("retry") or the exception it lets escape ("raise")
RefreshStep(out, f, dir) ==
    IF out.status = 0 THEN [next |-> "retry", file |-> f, exc |-> <<>>]
    ELSE IF out.status >= 400 THEN [next |-> "retry", file |-> f, exc |-> <<>>]
    ELSE IF out.status = 200
    THEN LET w == WriteResponse(out.body, f, dir)
             h == WriteResponse(out.body, f, dir)   \* the FileNotFoundError handler
         IN  IF w.exc = <<>> THEN [next |-> "return", file |-> w.file, exc |-> <<>>]
             ELSE IF w.exc # <<"FileNotFoundError">> THEN [next |-> "retry", file |-> w.file, exc |-> <<>>]
             ELSE IF h.exc = <<>> THEN [next |-> "return", file |-> h.file, exc |-> <<>>]
             ELSE [next |-> "raise", file |-> h.file, exc |-> h.exc]
    ELSE [next |-> "return", file |-> f, exc |-> <<>>]

\* where control goes when an activation of refresh_api_key ends
RefreshExit(r, s, c) ==
    CASE r.next = "retry" -> [pc |-> "refresh", site |-> s, err |-> FALSE]
      [] r.next = "return" -> [pc |-> "refresh_done", site |-> s, err |-> FALSE]
      [] OTHER ->
           IF s \in {"init76", "init86"} /\ r.exc \in InitCaught
           THEN [pc |-> "refresh", site |-> "init90", err |-> FALSE]
           ELSE IF c = "generate" THEN [pc |-> "ready", site |-> s, err |-> TRUE]
           ELSE [pc |-> "raised", site |-> s, err |-> FALSE]

----------------------------------------------------------------------------
(* Cerebras.generate *)

Contents == {<<"X">>, <<"Heat", " and work.">>}
ComplStatuses == {0, 204, 401, 500}   \* 0: requests.post raised (no response)

\* answers of the completion endpoint
ComplResponses ==
    {[status |-> s, shape |-> "none", content |-> <<>>] : s \in ComplStatuses}
        \cup {[status |-> 200, shape |-> "ok", content |-> c] : c \in Contents}
        \cup {[status |-> 200, shape |-> sh, content |-> <<>>] : sh \in {"nochoices", "notjson"}}

NoResp == [status |-> 0, shape |-> "none", content |-> <<>>]

NoResult == [kind |-> "none", val |-> <<>>]
Pending == [kind |-> "pending", val |-> <<>>]
Returned(v) == [kind |-> "returned", val |-> v]
Raised(e) == [kind |-> "raised", val |-> e]

\* f'Bearer {self.api_key}'
Bearer(key) == <<"Bearer ">> \o Str(key)

\* headers and json_data of the completion request
Request(key, c, p) ==
    [auth |-> Bearer(key),
     messages |-> <<c.system_prompt, p>>,
     model |-> c.model,
     temperature |-> c.temperature,
     top_p |-> c.top_p,
     max_completion_tokens |-> c.max_tokens]

NoRequest ==
    [auth |-> <<>>, messages |-> <<>>, model |-> "", temperature |-> 0,
     top_p |-> 0, max_completion_tokens |-> 0]

\* ParseContent returning the message object instead of its content
ParseContent_Message(resp) ==
    CASE resp.shape = "ok" -> [exc |-> <<>>, val |-> <<"{'content': ">> \o resp.content \o <<"}">>]
      [] resp.shape = "notjson" -> [exc |-> <<"JSONDecodeError">>, val |-> <<>>]
      [] OTHER -> [exc |-> <<"KeyError">>, val |-> <<>>]

\* ParseContent using .get() lookups, which yield an empty result instead of raising
ParseContent_NoRaise(resp) ==
    CASE resp.shape = "ok" -> [exc |-> <<>>, val |-> resp.content]
      [] resp.shape = "notjson" -> [exc |-> <<"JSONDecodeError">>, val |-> <<>>]
      [] OTHER -> [exc |-> <<>>, val |-> <<>>]

\* response.json()['choices'][0]['message']['content']
ParseContent(resp) ==
    CASE resp.shape = "ok" -> [exc |-> <<>>, val |-> resp.content]
      [] resp.shape = "notjson" -> [exc |-> <<"JSONDecodeError">>, val |-> <<>>]
      [] OTHER -> [exc |-> <<"KeyError">>, val |-> <<>>]

\* f"... An error occurred: {e}"
ExcMsg(e) == <<"An error occurred: ">> \o e

\* StatusMsg without the status code
StatusMsg_NoCode(s) ==
    <<"Alert: Received unexpected status code ">>
        \o <<". Please check the request and try again.">>

\* f"... Received unexpected status code {response.status_code}. ..."
StatusMsg(s) ==
    <<"Alert: Received unexpected status code ">> \o IntToStr(s)
        \o <<". Please check the request and try again.">>

\* the body of the try block after requests.post answered
HandleResponse(resp) ==
    IF resp.status = 0 THEN [next |-> "return", val |-> ExcMsg(<<"ConnectionError">>)]
    ELSE IF resp.status = 401 THEN [next |-> "refresh", val |-> <<>>]
    ELSE IF resp.status = 200
    THEN LET c == ParseContent(resp)
         IN  IF c.exc = <<>> THEN [next |-> "return", val |-> c.val]
             ELSE [next |-> "return", val |-> ExcMsg(c.exc)]
    ELSE [next |-> "return", val |-> StatusMsg(resp.status)]

----------------------------------------------------------------------------
(* The state machine *)

DefaultConfig == CHOOSE c \in Configs : c.max_tokens = 2048

Init ==
    /\ pc = "none"
    /\ site = "none"
    /\ caller = "main"
    /\ cookies_or_api_key = NoneVal
    /\ config = DefaultConfig
    /\ api_key = Unset
    /\ file \in InitialFiles
    /\ dirExists \in BOOLEAN
    /\ Exists(file) => dirExists
    /\ prompt = <<>>
    /\ request = NoRequest
    /\ lastResp = NoResp
    /\ lastAcq = NoAcq
    /\ result = NoResult
    /\ ctorAcq = 0
    /\ ctorFails = 0
    /\ genAcq = 0
    /\ genCompl = 0
    /\ fileAtCtor = Absent
    /\ argsAtCtor = <<NoneVal, DefaultConfig>>
    /\ depth = 0
    /\ seen401 = FALSE

\* ai = Cerebras(inp, ...): a new client object, up to the first network call
Construct(inp, cfg) ==
    /\ pc \in {"none", "ready", "raised"}
    /\ LET r == InitLogic(inp, file, dirExists, Unset)
       IN  /\ api_key' = r.api_key
           /\ file' = r.file
           /\ site' = r.site
           /\ pc' = CASE r.next = "refresh" -> "refresh"
                      [] r.next = "done" -> "ready"
                      [] OTHER -> "raised"
           /\ depth' = IF r.next = "refresh" THEN 1 ELSE 0
    /\ cookies_or_api_key' = inp
    /\ config' = cfg
    /\ caller' = "main"
    /\ fileAtCtor' = file
    /\ argsAtCtor' = <<inp, cfg>>
    /\ seen401' = FALSE
    /\ ctorAcq' = 0
    /\ ctorFails' = 0
    /\ genAcq' = 0
    /\ genCompl' = 0
    /\ prompt' = <<>>
    /\ request' = NoRequest
    /\ lastResp' = NoResp
    /\ lastAcq' = NoAcq
    /\ result' = NoResult
    /\ UNCHANGED dirExists

\* the credential-acquisition endpoint answers the request of refresh_api_key
RefreshAttempt(out) ==
    /\ pc = "refresh"
    /\ IF caller = "main" THEN ctorAcq < MaxAcq ELSE genAcq < MaxAcq
    /\ lastAcq' = out
    /\ IF caller = "main"
       THEN /\ ctorAcq' = ctorAcq + 1
            /\ ctorFails' = ctorFails + (IF AcqSucceeded(out) THEN 0 ELSE 1)
            /\ UNCHANGED genAcq
       ELSE /\ genAcq' = genAcq + 1
            /\ UNCHANGED <<ctorAcq, ctorFails>>
    /\ LET r == RefreshStep(out, file, dirExists)
           x == RefreshExit(r, site, caller)
       IN  /\ file' = r.file
           /\ pc' = x.pc
           /\ site' = x.site
           /\ result' = IF x.err THEN Returned(ExcMsg(r.exc)) ELSE result
           /\ depth' = CASE r.next = "retry" -> depth + 1
                         [] x.pc = "refresh" -> 1
                         [] OTHER -> 0
    /\ UNCHANGED <<caller, cookies_or_api_key, config, api_key, dirExists, prompt,
                   request, lastResp, genCompl, fileAtCtor, argsAtCtor, seen401>>

\* refresh_api_key has returned to its call site: the rest of __init__, and
\* in generate the call of __init__ and the recursive call of generate
RefreshReturn ==
    /\ pc = "refresh_done"
    /\ LET args == ReinitArgs(cookies_or_api_key, config)
           r == IF site = "gen194"
                THEN InitLogic(args[1], file, dirExists, api_key)
                ELSE Out("done", "none", file, api_key, <<>>)
           sends == r.next = "done" /\ caller = "generate" /\ r.api_key # Unset
       IN  /\ sends => genCompl < MaxCompl
           /\ cookies_or_api_key' = IF site = "gen194" THEN args[1] ELSE cookies_or_api_key
           /\ config' = IF site = "gen194" THEN InitAssign(args) ELSE config
           /\ api_key' = r.api_key
           /\ file' = r.file
           /\ site' = IF r.next = "refresh" THEN r.site ELSE site
           /\ depth' = IF r.next = "refresh" THEN 1 ELSE 0
           /\ pc' = CASE r.next = "refresh" -> "refresh"
                      [] sends -> "completing"
                      [] OTHER -> "ready"
           /\ request' = IF sends THEN Request(r.api_key, config', prompt) ELSE request
           /\ genCompl' = IF sends THEN genCompl + 1 ELSE genCompl
           /\ lastResp' = IF sends THEN NoResp ELSE lastResp
           /\ result' = CASE r.next = "raise" -> Returned(ExcMsg(r.exc))
                          [] r.next = "done" /\ caller = "generate" /\ ~sends ->
                               Returned(ExcMsg(<<"AttributeError">>))
                          [] OTHER -> result
    /\ UNCHANGED <<caller, dirExists, prompt, lastAcq, ctorAcq, ctorFails,
                   genAcq, fileAtCtor, argsAtCtor, seen401>>

\* response = ai.generate(p), up to the completion request
Generate(p) ==
    /\ pc = "ready"
    /\ prompt' = p
    /\ caller' = "generate"
    /\ genAcq' = 0
    /\ lastResp' = NoResp
    /\ IF api_key = Unset
       THEN /\ pc' = "ready"
            /\ result' = Raised(<<"AttributeError">>)
            /\ genCompl' = 0
            /\ UNCHANGED request
       ELSE /\ pc' = "completing"
            /\ result' = Pending
            /\ genCompl' = 1
            /\ request' = Request(api_key, config, p)
    /\ UNCHANGED <<site, cookies_or_api_key, config, api_key, file, dirExists, lastAcq,
                   ctorAcq, ctorFails, fileAtCtor, argsAtCtor, depth, seen401>>

\* the completion endpoint answers the request of generate
CompletionResponse(resp) ==
    /\ pc = "completing"
    /\ lastResp' = resp
    /\ LET h == HandleResponse(resp)
       IN  IF h.next = "refresh"
           THEN /\ pc' = "refresh"
                /\ site' = "gen194"
                /\ depth' = 1
                /\ seen401' = TRUE
                /\ UNCHANGED result
           ELSE /\ pc' = "ready"
                /\ result' = Returned(h.val)
                /\ UNCHANGED <<site, depth, seen401>>
    /\ UNCHANGED <<caller, cookies_or_api_key, config, api_key, file, dirExists, prompt,
                   request, lastAcq, ctorAcq, ctorFails, genAcq, genCompl, fileAtCtor,
                   argsAtCtor>>

Next ==
    \/ \E inp \in Inputs, cfg \in Configs : Construct(inp, cfg)
    \/ \E out \in AcqOutcomes : RefreshAttempt(out)
    \/ RefreshReturn
    \/ \E p \in Prompts : Generate(p)
    \/ \E resp \in ComplResponses : CompletionResponse(resp)

Spec == Init /\ [][Next]_vars

\* The recursion of refresh_api_key on the interpreter's call stack: the
\* stack holds at most StackLimit nested activations.
StackLimit == MaxAcq

\* the recursive call self.refresh_api_key() of the except handlers finds the
\* stack exhausted: RecursionError is raised inside the handlers and escapes
\* every activation of refresh_api_key
RecursionExhausted ==
    /\ pc = "refresh"
    /\ depth = StackLimit + 1
    /\ LET r == [next |-> "raise", file |-> file, exc |-> <<"RecursionError">>]
           x == RefreshExit(r, site, caller)
       IN  /\ pc' = x.pc
           /\ site' = x.site
           /\ result' = IF x.err THEN Returned(ExcMsg(r.exc)) ELSE result
           /\ depth' = 0
    /\ UNCHANGED <<caller, cookies_or_api_key, config, api_key, file, dirExists, prompt,
                   request, lastResp, lastAcq, ctorAcq, ctorFails, genAcq, genCompl,
                   fileAtCtor, argsAtCtor, seen401>>

NextStack == Next \/ RecursionExhausted

SpecStack == Init /\ [][NextStack]_vars

TypeOK ==
    /\ pc \in {"none", "refresh", "refresh_done", "ready", "raised", "completing"}
    /\ site \in {"none", "init76", "init86", "init90", "gen194"}
    /\ caller \in {"main", "generate"}
    /\ config \in Configs
    /\ ctorAcq \in 0..MaxAcq
    /\ genAcq \in 0..MaxAcq
    /\ genCompl \in 0..MaxCompl

----------------------------------------------------------------------------
(* Vocabulary of the properties *)

\* a client object was constructed from a cookie string
CookieMode ==
    pc # "none" /\ Truthy(cookies_or_api_key) /\ StartsWith(cookies_or_api_key, COOKIE_PREFIX)

\* a client object was constructed from a direct credential
DirectMode ==
    pc # "none" /\ Truthy(cookies_or_api_key) /\ StartsWith(cookies_or_api_key, KEY_PREFIX)

\* the constructor call has ended (returned or raised)
CtorDone == pc \in {"ready", "raised"} \/ caller = "generate"

\* the constructor call returned a client
Constructed == pc \in {"ready", "completing"} \/ caller = "generate"

\* the document holds a credential: a non-empty string at the key
HasCredential(f) == f.shape = "keyed" /\ IsStr(f.key) /\ Truthy(f.key)

----------------------------------------------------------------------------
(* Properties *)

\* C1: a client constructed with a direct credential ('csk-' prefix) never
\* sends a request to the credential-acquisition endpoint, neither during
\* construction nor during generate, whatever the completion endpoint answers.
C1_DirectKeyNeverAcquires ==
    DirectMode => pc # "refresh" /\ ctorAcq = 0 /\ genAcq = 0

\* C2: a generate call sends at most two completion requests; when the retry
\* after a 401 is answered 401 too, generate ends with a reported error
\* instead of refreshing and retrying again.
C2_RetryOnceThenReport ==
    /\ genCompl <= 2
    /\ (genCompl = 2 /\ lastResp.status = 401) => (pc = "ready" /\ result.kind = "returned")

\* C3: generate never raises: every call on a constructed client ends by
\* returning a string.
C3_GenerateNeverRaises ==
    result.kind # "raised"

\* C4: when refresh_api_key returns after a successful acquisition whose
\* response carries credential K, the in-memory credential is K and the
\* credential in the cache file is K.
C4_RefreshUpdatesMemoryAndFile ==
    (pc = "refresh_done" /\ AcqSucceeded(lastAcq) /\ HasCredential(lastAcq.body))
        => (api_key = lastAcq.body.key /\ HasCredential(file) /\ file.key = lastAcq.body.key)

\* C5: every completion request carries a non-empty credential: the
\* user-supplied one, or one obtained from the cache file or from the
\* acquisition endpoint; never an absent or None credential.
C5_RequestCarriesCredential ==
    genCompl > 0 =>
        \E k \in Keys \cup (IF DirectMode THEN {cookies_or_api_key} ELSE {}) :
            Truthy(k) /\ request.auth = <<"Bearer ">> \o k

\* C6: for a cookie input with no cache file, the constructor sends exactly
\* one acquisition request when that request succeeds, and no completion
\* request is sent before it.
C6_NoCacheOneAcquisition ==
    (CookieMode /\ fileAtCtor = Absent) =>
        /\ (CtorDone /\ ctorFails = 0) => ctorAcq = 1
        /\ request # NoRequest => ctorAcq >= 1

C6_Witness ==
    /\ CookieMode /\ fileAtCtor = Absent
    /\ pc = "ready" /\ ctorAcq = 1 /\ ctorFails = 0 /\ HasCredential(file)

\* C7: for a cookie input with a well-formed cache file that holds a
\* credential, construction sends no acquisition request, the in-memory
\* credential is the cached one and the file is unchanged; generate keeps
\* sending the cached credential until a completion request is answered 401.
C7_ValidCacheReused ==
    (CookieMode /\ HasCredential(fileAtCtor) /\ ~seen401) =>
        /\ Constructed
        /\ ctorAcq = 0
        /\ api_key = fileAtCtor.key
        /\ file = fileAtCtor
        /\ request # NoRequest => request.auth = <<"Bearer ">> \o fileAtCtor.key

C7_Witness ==
    /\ CookieMode /\ HasCredential(fileAtCtor) /\ ~seen401
    /\ result.kind = "returned" /\ genCompl = 1
    /\ request.auth = <<"Bearer ">> \o fileAtCtor.key

C9_Status200ReturnsContent ==
    [][(pc = "completing" /\ lastResp'.status = 200 /\ lastResp'.shape = "ok") =>
          /\ pc' = "ready"
          /\ result' = [kind |-> "returned", val |-> lastResp'.content]
          /\ genCompl' = genCompl /\ genAcq' = genAcq
          /\ api_key' = api_key /\ file' = file
          /\ genCompl = 1 => (genCompl' = 1 /\ genAcq' = 0)]_vars

C9_Witness ==
    /\ pc = "ready" /\ lastResp.status = 200 /\ lastResp.shape = "ok"
    /\ result = [kind |-> "returned", val |-> <<"X">>]
    /\ genCompl = 1 /\ genAcq = 0

\* C10: when a completion request is answered a status other than 200 and
\* 401, generate returns an error string that names the status code, without
\* sending another completion request or any acquisition request and without
\* changing the in-memory credential or the cache file.
C10_OtherStatusReported ==
    [][(pc = "completing" /\ lastResp'.status \notin {0, 200, 401}) =>
          /\ pc' = "ready"
          /\ result'.kind = "returned"
          /\ lastResp'.status = 500 => Contains(result'.val, <<"5", "0", "0">>)
          /\ lastResp'.status = 204 => Contains(result'.val, <<"2", "0", "4">>)
          /\ lastResp'.status \in {204, 500}
          /\ genCompl' = genCompl /\ genAcq' = genAcq
          /\ api_key' = api_key /\ file' = file
          /\ genCompl = 1 => (genCompl' = 1 /\ genAcq' = 0)]_vars

C10_Witness ==
    /\ pc = "ready" /\ lastResp.status = 500
    /\ result.kind = "returned" /\ Contains(result.val, <<"5", "0", "0">>)
    /\ genCompl = 1 /\ genAcq = 0

\* the authentication input is absent, empty, or carries neither prefix
InvalidInput(inp) ==
    \/ inp = NoneVal
    \/ inp = EmptyStr
    \/ Len(inp) = 0
    \/ (inp[1] # "cookieyes-consent" /\ inp[1] # "csk-")

\* C11: construction with an input that is absent, empty or carries neither
\* prefix fails with a configuration error and is not retried: no client
\* results, no acquisition request is sent, and the cache file is neither
\* created nor written.
C11_InvalidInputRejected ==
    (pc # "none" /\ InvalidInput(cookies_or_api_key)) =>
        /\ pc = "raised"
        /\ ctorAcq = 0 /\ genAcq = 0
        /\ request = NoRequest
        /\ file = fileAtCtor
        /\ api_key = Unset

C11_Witness ==
    /\ pc = "raised" /\ cookies_or_api_key = OtherInput
    /\ HasCredential(file) /\ file = fileAtCtor /\ ctorAcq = 0

\* C12: refresh_api_key retries after every unsuccessful attempt (transport
\* failure or any status other than 200), so it returns normally only after
\* a 200 answer has been written to the cache file.
C12_ReturnsOnlyAfter200Written ==
    pc = "refresh_done" => (lastAcq.status = 200 /\ file = lastAcq.body)

\* C13: refresh_api_key has no retry limit: when n attempts fail and the next
\* one succeeds it has made exactly n+1 attempts and returns; while the
\* endpoint keeps failing it neither returns nor surfaces a failure to its
\* caller (with the cache directory in place, an activation of
\* refresh_api_key ends only in another attempt or in a normal return).
C13_NoRetryLimit ==
    [][(pc = "refresh" /\ dirExists) =>
          /\ pc' \in {"refresh", "refresh_done"}
          /\ (caller = "main" /\ pc' = "refresh_done" /\ lastAcq'.status = 200)
                => ctorAcq' = ctorFails' + 1]_vars

\* C14: after every successful acquisition the cache file holds the full raw
\* response of that acquisition; a failed attempt leaves the stored content
\* in place.
C14_CacheHoldsLastRawResponse ==
    [][pc = "refresh" =>
          IF AcqSucceeded(lastAcq') THEN file' = lastAcq'.body ELSE file' = file]_vars

\* the file is well-formed JSON that holds no credential: the key is missing,
\* or a value on the nested path (the key's value included) has a wrong type
NoCredentialDoc(f) ==
    f.shape \in {"empty", "badtype"} \/ (f.shape = "keyed" /\ ~HasCredential(f))

\* the file is well-formed JSON in which the key is missing, null or empty, or
\* in which a value on the way to the key is not an object
NoKeyDoc(f) ==
    f.shape \in {"empty", "badtype"} \/ (f.shape = "keyed" /\ f.key \in {NoneVal, EmptyStr})

C16_ConfigImmutable ==
    pc # "none" =>
        /\ cookies_or_api_key = argsAtCtor[1]
        /\ config.model = argsAtCtor[2].model
        /\ config.max_tokens = argsAtCtor[2].max_tokens
        /\ config.temperature = argsAtCtor[2].temperature
        /\ config.top_p = argsAtCtor[2].top_p
        /\ config.timeout = argsAtCtor[2].timeout
        /\ config.system_prompt = argsAtCtor[2].system_prompt

C16_Witness ==
    /\ seen401 /\ genCompl >= 2 /\ pc = "ready" /\ result.kind = "returned"
    /\ argsAtCtor[2].max_tokens = 30 /\ config = argsAtCtor[2]
    /\ cookies_or_api_key = argsAtCtor[1]

\* C17: a transport failure of the completion request, or a 200 answer whose
\* body cannot be parsed into a first choice's message content, becomes a
\* returned error string: generate does not raise, sends no further
\* completion request and no acquisition request.
C17_CompletionFailureReturned ==
    [][(pc = "completing"
          /\ (lastResp'.status = 0 \/ (lastResp'.status = 200 /\ lastResp'.shape # "ok"))) =>
          /\ pc' = "ready"
          /\ result'.kind = "returned"
          /\ Len(result'.val) = 2 /\ result'.val[1] = "An error occurred: "
          /\ genCompl' = genCompl /\ genAcq' = genAcq
          /\ api_key' = api_key /\ file' = file
          /\ genCompl = 1 => (genCompl' = 1 /\ genAcq' = 0)]_vars

C17_Witness ==
    /\ pc = "ready" /\ lastResp.status = 200 /\ lastResp.shape = "nochoices"
    /\ result = [kind |-> "returned", val |-> <<"An error occurred: ", "KeyError">>]
    /\ genCompl = 1 /\ genAcq = 0

\* C18: a client constructed with a direct credential never creates,
\* truncates or overwrites the cache file, neither during construction nor
\* during generate, whatever the completion endpoint answers.
C18_DirectKeyLeavesCacheAlone ==
    DirectMode => file = fileAtCtor

\* C19: in cookie mode, when a completion request was answered 401 and the
\* refresh that follows succeeded with a response carrying credential K, the
\* retried completion request carries K and K is the in-memory credential
\* when generate returns.
C19_RetryCarriesNewCredential ==
    (/\ CookieMode /\ caller = "generate" /\ site = "gen194" /\ genAcq >= 1
     /\ AcqSucceeded(lastAcq) /\ HasCredential(lastAcq.body)
     /\ pc \in {"completing", "ready"}) =>
        /\ api_key = lastAcq.body.key
        /\ genCompl >= 2
        /\ request.auth = <<"Bearer ">> \o lastAcq.body.key
        /\ pc = "ready" => result.kind = "returned"

C19_Witness ==
    /\ CookieMode /\ caller = "generate" /\ site = "gen194" /\ genAcq = 1
    /\ fileAtCtor = Keyed(K1, <<>>) /\ lastAcq = [status |-> 200, body |-> Keyed(K2, <<"extensions">>)]
    /\ pc = "ready" /\ result.kind = "returned" /\ genCompl = 2
    /\ api_key = K2 /\ request.auth = <<"Bearer ", "demo-", "2">>

====
